---- MODULE Spec2Model ----
(***************************************************************************)
(* Model of octopus_deploy_projects.py: the API client, the deployment     *)
(* paginator, the per-(project, environment) resolver process_deployment   *)
(* and the aggregator fetch_all_deployment_data with its thread pool.      *)
(***************************************************************************)
EXTENDS Integers, Sequences, FiniteSets, TLC

\* ------------------------------------------------------------------ bounds
MaxRecords == 95      \* longest history served to the paginator (SpecPag)
MaxHist == 3          \* longest history with free task states (SpecRes)
MaxFailures == 2      \* failed API calls injected into one run
ExtraEnvs == 1        \* environments beyond the pool size (SpecPool)

\* --------------------------------------------------------- program constants
take == 30            \* page size of the deployments request
max_workers == 10     \* ThreadPoolExecutor(max_workers=10)

None == [tag |-> "None"]

\* ----------------------------------------------------------- the API client
\* What one GET can meet: a status code, or a transport failure (requests.get
\* raises, e.g. ConnectionError) written as status 0.
TransportError == 0
Outcomes == {200, 404, 500, TransportError}

\* make_api_request: the parsed body on 200, None on any other status; a
\* transport failure is not caught, the exception leaves the function.
make_api_request(body, oc) ==
    IF oc = TransportError THEN [tag |-> "Raise"]
    ELSE IF oc = 200 THEN [tag |-> "Json", json |-> body]
    ELSE None

\* How a call ended, for the request log.
Ret(resp) == resp.tag

\* ------------------------------------------------------ the backing service
TaskStates == {"Success", "Failed", "Unknown", "Executing", "NoState"}

\* A UTC timestamp as the service writes it: the hour counted from
\* 2024-01-01T00:00:00+00:00 and the number of digits of its fractional
\* seconds.  The service writes milliseconds, and no fraction at all for an
\* instant on a whole second.
Timestamp(hour, digits) == [hour |-> hour, digits |-> digits]

\* America/Los_Angeles in hours from 2024-01-01T00:00Z: daylight saving time
\* runs from 2024-03-10T10:00Z to 2024-11-03T09:00Z.  These two instants are
\* the zone's only changes between 2023-11-05T09:00Z and 2025-03-09T10:00Z
\* (hours -1359 to 10401), the span the timestamps of the model lie in.
DstStart2024 == 1666
DstEnd2024 == 7377

\* A deployment record of a pair: record i (1 = most recent) of the history;
\* whole is the set of records created on a whole second.  The two most
\* recent records are created in daylight saving time, the others before it.
DeploymentRecord(i, whole) ==
    [Id |-> i, ReleaseId |-> i, TaskId |-> i,
     Created |-> Timestamp(DstStart2024 + 2 - i, IF i \in whole THEN 0 ELSE 3)]

\* The deployment records of a history h (a sequence of task states, most
\* recent first).
Deployments(h, whole) == [i \in 1..Len(h) |-> DeploymentRecord(i, whole)]

Min(a, b) == IF a < b THEN a ELSE b

\* The body of deployments?...&skip=s&take=n for history h.
PageBody(h, whole, s, n) ==
    [Items |-> IF s >= Len(h) THEN <<>>
               ELSE SubSeq(Deployments(h, whole), s + 1, Min(s + n, Len(h)))]

\* The body of releases/{id}: release notes are optional.
ReleaseBody(rid) ==
    IF rid % 2 = 1 THEN [Version |-> <<"v", rid>>, ReleaseNotes |-> <<"notes", rid>>]
    ELSE [Version |-> <<"v", rid>>]

\* The body of tasks/{id} for history h: a task may carry no State.
TaskBody(h, tid) ==
    IF h[tid] = "NoState" THEN [Id |-> tid] ELSE [Id |-> tid, State |-> h[tid]]

\* hours America/Los_Angeles is behind UTC at the given hour
UtcOffset(hour) == IF DstStart2024 <= hour /\ hour < DstEnd2024 THEN 7 ELSE 8

\* astimezone(pdt_zone)
astimezone(hour) == hour - UtcOffset(hour)

\* datetime.strptime(utc_time, '%Y-%m-%dT%H:%M:%S.%f%z') matches: %f takes one
\* to six digits and the point before them is literal
strptime(utc_time) == 1 <= utc_time.digits /\ utc_time.digits <= 6

\* convert_to_pdt: ValueError when the timestamp does not match the format;
\* else the time of day in Los Angeles, to the second, labelled PDT whatever
\* the season
convert_to_pdt(utc_time) ==
    IF ~strptime(utc_time) THEN [tag |-> "Raise"]
    ELSE [tag |-> "Str", str |-> <<astimezone(utc_time.hour), "PDT">>]

\* dict.get(key, default)
Get(d, key, default) == IF key \in DOMAIN d THEN d[key] ELSE default

\* ------------------------------------------------- one resolution (a task)
\* The frame of one process_deployment(project_id, environment_id) call.
\*   pc       where the call stands: queued | page | release | task | scan |
\*            scan_release | done | collected
\*   calls    the requests issued so far, <<endpoint, argument, how it ended>>
\*   raised   an exception reached the except clause of process_deployment
\*   seen     seen[i]: the State read for record i during the scan, if any
NewTask(p, e, h, whole) ==
    [pc |-> "queued", project_id |-> p, environment_id |-> e, hist |-> h,
     whole |-> whole,
     skip |-> 0, all_items |-> <<>>, calls |-> <<>>,
     release |-> None, output |-> None, idx |-> 0, seen |-> <<>>,
     raised |-> FALSE, result |-> None]

Logged(t, kind, arg, resp) ==
    [t EXCEPT !.calls = Append(@, <<kind, arg, Ret(resp)>>)]

\* return value of process_deployment
Return(t, value) == [t EXCEPT !.pc = "done", !.result = value]

\* a faulty variant: no except clause, the exception leaves the call
ExceptPropagates(t) ==
    [t EXCEPT !.pc = "done", !.result = [tag |-> "Raise"], !.raised = TRUE]

\* except Exception as e: log, return None
OnException(t) == [t EXCEPT !.pc = "done", !.result = None, !.raised = TRUE]

\* fetch_deployments_with_pagination has returned all_items: the test of
\* process_deployment for no deployment
AfterPagination(t) ==
    IF t.all_items = <<>> THEN Return(t, None) ELSE [t EXCEPT !.pc = "release"]

\* a faulty variant: a full page ends the loop too
ShortReadOrFull(items_count) == items_count <= take

\* if items_count < take: break
ShortRead(items_count) == items_count < take

\* a faulty variant: an Absent page discards what was accumulated
AbsentPageDropsItems(t) == AfterPagination([t EXCEPT !.all_items = <<>>])

\* if not result: break
AbsentPage(t) == AfterPagination(t)

\* One turn of the while loop of fetch_deployments_with_pagination.
PageTurn(t, oc) ==
    LET resp == make_api_request(PageBody(t.hist, t.whole, t.skip, take), oc)
        u == Logged(t, "deployments", t.skip, resp)
    IN  IF resp.tag = "Raise" THEN OnException(u)
        ELSE IF resp.tag = "None" THEN AbsentPage(u)
        ELSE IF resp.json.Items = <<>> THEN AfterPagination(u)
        ELSE LET items_count == Len(resp.json.Items)
                 v == [u EXCEPT !.all_items = @ \o resp.json.Items]
             IN  IF ShortRead(items_count) THEN AfterPagination(v)
                 ELSE [v EXCEPT !.skip = @ + take]

\* latest_deployment = deployments[0]; release = make_api_request(releases/..)
ReleaseTurn(t, oc) ==
    LET latest_deployment == t.all_items[1]
        resp == make_api_request(ReleaseBody(latest_deployment.ReleaseId), oc)
        u == Logged(t, "releases", latest_deployment.ReleaseId, resp)
    IN  IF resp.tag = "Raise" THEN OnException(u)
        ELSE [u EXCEPT !.pc = "task", !.release = resp]

\* a faulty variant: every state but Success counts as failed
IsFailedAnyNonSuccess(task) == Get(task, "State", "Unknown") # "Success"

\* task.get('State', 'Unknown') == 'Failed'
IsFailed(task) == Get(task, "State", "Unknown") = "Failed"

\* the base report of lines 117-121
BaseOutput(release, latest_deployment) ==
    [version |-> release.Version,
     release_notes |-> Get(release, "ReleaseNotes", "null"),
     deployment_date |-> convert_to_pdt(latest_deployment.Created).str]

\* the for loop over deployments[1:] has no record left, or broke: return
ScanFrom(t, i) ==
    IF i > Len(t.all_items)
    THEN Return(t, [tag |-> "Some", env_id |-> t.environment_id, data |-> t.output])
    ELSE [t EXCEPT !.pc = "scan", !.idx = i]

\* a faulty variant: only the task is tested
UnreportableTaskOnly(release, task) == task.tag = "None"

\* if not release or not task
Unreportable(release, task) == release.tag = "None" \/ task.tag = "None"

\* a faulty variant: the scan takes in the latest deployment, deployments[0:]
WholeList == Len(<<"latest_deployment">>)

\* deployments[1:] begins at the second record
FirstScanned == 2

\* task = make_api_request(tasks/..) for the latest deployment, the Absent
\* test, the failed flag and the base report (release['Version'] on None
\* would raise TypeError)
TaskTurn(t, oc) ==
    LET latest_deployment == t.all_items[1]
        resp == make_api_request(TaskBody(t.hist, latest_deployment.TaskId), oc)
        u == Logged(t, "tasks", latest_deployment.TaskId, resp)
    IN  IF resp.tag = "Raise" THEN OnException(u)
        ELSE IF Unreportable(t.release, resp) THEN Return(u, None)
        ELSE IF t.release.tag # "Json" THEN OnException(u)
        ELSE IF convert_to_pdt(latest_deployment.Created).tag = "Raise"
             THEN OnException(u)
        ELSE LET output == BaseOutput(t.release.json, latest_deployment)
             IN  IF IsFailed(resp.json)
                 THEN ScanFrom([u EXCEPT !.output = output @@ [failed |-> TRUE]],
                               FirstScanned)
                 ELSE Return(u, [tag |-> "Some", env_id |-> t.environment_id,
                                 data |-> output])

\* after a record of the scan that is no match: the next record
ScanContinue(t) == ScanFrom(t, t.idx + 1)

\* break after the match of the scan
MatchBreaks(t) == ScanFrom(t, Len(t.all_items) + 1)

\* task and task.get('State', 'Unknown') == 'Success'
IsSuccess(task) ==
    task.tag = "Json" /\ Get(task.json, "State", "Unknown") = "Success"

\* One iteration of the for loop: the task request of record idx.
ScanTurn(t, oc) ==
    LET deployment == t.all_items[t.idx]
        resp == make_api_request(TaskBody(t.hist, deployment.TaskId), oc)
        u == [Logged(t, "tasks", deployment.TaskId, resp) EXCEPT
                 !.seen = Append(@, IF resp.tag = "Json"
                                    THEN Get(resp.json, "State", "Unknown")
                                    ELSE "Absent")]
    IN  IF resp.tag = "Raise" THEN OnException(u)
        ELSE IF IsSuccess(resp) THEN [u EXCEPT !.pc = "scan_release"]
        ELSE ScanContinue(u)

\* a faulty variant: an Absent release leaves the base report as it is
AbsentSuccessReleaseKeepsBase(t) == MatchBreaks(t)

\* success_release['Version'] on None raises TypeError, caught at line 137
AbsentSuccessRelease(t) == OnException(t)

\* The match of the scan: its release request, the last_successful fields,
\* break.
ScanReleaseTurn(t, oc) ==
    LET deployment == t.all_items[t.idx]
        resp == make_api_request(ReleaseBody(deployment.ReleaseId), oc)
        u == Logged(t, "releases", deployment.ReleaseId, resp)
    IN  IF resp.tag = "Raise" THEN OnException(u)
        ELSE IF resp.tag = "None" THEN AbsentSuccessRelease(u)
        ELSE IF convert_to_pdt(deployment.Created).tag = "Raise"
             THEN OnException(u)
        ELSE MatchBreaks([u EXCEPT !.output =
                     [last_successful_version |-> resp.json.Version,
                      last_successful_date |-> convert_to_pdt(deployment.Created).str]
                     @@ @])

\* The next statement of a running resolution, given how its request ends.
TaskStep(t, oc) ==
    CASE t.pc = "page" -> PageTurn(t, oc)
      [] t.pc = "release" -> ReleaseTurn(t, oc)
      [] t.pc = "task" -> TaskTurn(t, oc)
      [] t.pc = "scan" -> ScanTurn(t, oc)
      [] t.pc = "scan_release" -> ScanReleaseTurn(t, oc)

Running(t) == t.pc \in {"page", "release", "task", "scan", "scan_release"}

\* How many requests of a resolution did not return a body.
Failures(calls) == Cardinality({i \in 1..Len(calls) : calls[i][3] # "Json"})
\* ------------------------------------------------------------------- state
VARIABLES
    server,          \* the backing data: projects, groups, environments,
                     \* details, hist, and how many requests may fail
    pc,              \* where the main thread stands
    projects,        \* fetch_all_projects()
    project_groups,  \* fetch_all_project_groups()
    environments,    \* fetch_all_environments()
    gi,              \* position of the group loop in project_groups
    pj,              \* position of the project loop in group_projects
    group_data,      \* the group report under construction
    project_data,    \* the project report under construction
    tk,              \* futures: tk[i] is the task submitted for environments[i]
    env_data,        \* the dict env_data, in insertion order: <<env_id, data>>
    all_results,     \* the list all_results
    output_file,     \* all_projects_deployment_data.json, None until written
    executor,        \* the ThreadPoolExecutor: None, or its max_workers and
                     \* how many executors the run has created so far
    faults           \* the requests that failed so far: where each was made

vars == <<server, pc, projects, project_groups, environments, gi, pj,
          group_data, project_data, tk, env_data, all_results, output_file,
          executor, faults>>

main_vars == <<pc, projects, project_groups, environments, gi, pj,
               group_data, project_data, env_data, all_results, output_file,
               executor>>

\* A request may fail only while the run's failures are below the number
\* of failures the scenario allows.
MayEnd(oc) == oc = 200 \/ Len(faults) < server.failures

\* the runs whose failed requests are logged in full
Audited == "audit" \in DOMAIN server

\* the log of failed requests: where the request was made (endpoint, project,
\* environment) and, in an audited run, its argument and how
\* make_api_request ended
Fault(oc, site) ==
    IF oc = 200 THEN faults
    ELSE IF Audited
         THEN Append(faults, Append(site, Ret(make_api_request(None, oc))))
         ELSE Append(faults, SubSeq(site, 1, 3))

\* a faulty variant: the projects of a group are kept newest first
ProjectsByGroupReversed(group_id) ==
    LET ps == SelectSeq(projects, LAMBDA project : project.ProjectGroupId = group_id)
    IN  [k \in DOMAIN ps |-> ps[Len(ps) + 1 - k]]

\* a faulty variant: no grouping, every group is given every project
ProjectsUngrouped(group_id) == projects

\* defaultdict grouping of lines 148-150: the projects of a group, in the
\* order of the projects list
projects_by_group(group_id) ==
    SelectSeq(projects, LAMBDA project : project.ProjectGroupId = group_id)

group_projects == projects_by_group(project_groups[gi].Id)

\* --------------------------------------------------------- worker actions
Endpoint(at) ==
    CASE at = "page" -> "deployments"
      [] at \in {"release", "scan_release"} -> "releases"
      [] at \in {"task", "scan"} -> "tasks"

\* the argument of the request a running task is about to make: the skip of
\* the page, or the identifier of the release or of the task
PendingArg(t) ==
    LET calls == TaskStep(t, 200).calls
    IN  calls[Len(calls)][2]

\* The pending request of task i is answered with oc; the task runs on to
\* its next request or to its return.
Turn(i, oc) ==
    /\ MayEnd(oc)
    /\ tk' = [tk EXCEPT ![i] = TaskStep(@, oc)]
    /\ faults' = Fault(oc, <<Endpoint(tk[i].pc), tk[i].project_id,
                             tk[i].environment_id, PendingArg(tk[i])>>)
    /\ UNCHANGED <<server, main_vars>>

\* the deployments request of the paginator's loop
FetchPage(i, oc) ==
    /\ i \in DOMAIN tk
    /\ tk[i].pc = "page"
    /\ Turn(i, oc)

\* the release request of the latest deployment
FetchRelease(i, oc) ==
    /\ i \in DOMAIN tk
    /\ tk[i].pc = "release"
    /\ Turn(i, oc)

\* the task request of the latest deployment
FetchTask(i, oc) ==
    /\ i \in DOMAIN tk
    /\ tk[i].pc = "task"
    /\ Turn(i, oc)

\* the task request of an older deployment
ScanTask(i, oc) ==
    /\ i \in DOMAIN tk
    /\ tk[i].pc = "scan"
    /\ Turn(i, oc)

\* the release request of the older deployment found successful
ScanRelease(i, oc) ==
    /\ i \in DOMAIN tk
    /\ tk[i].pc = "scan_release"
    /\ Turn(i, oc)

\* a faulty variant: the executor is built without max_workers and takes
\* the library's upper default
DefaultExecutor(before) == [tag |-> "Pool", max_workers |-> 32,
                            created |-> before + 1]

\* concurrent.futures.ThreadPoolExecutor(max_workers=10), the created-th
\* executor after those the run created before
ThreadPoolExecutor(before) == [tag |-> "Pool", max_workers |-> max_workers,
                               created |-> before + 1]

\* A pool thread takes the oldest queued task when fewer than max_workers
\* tasks are running.
Start(i) ==
    /\ i \in DOMAIN tk
    /\ tk[i].pc = "queued"
    /\ \A j \in 1..(i - 1) : tk[j].pc # "queued"
    /\ Cardinality({j \in DOMAIN tk : Running(tk[j])}) < executor.max_workers
    /\ tk' = [tk EXCEPT ![i].pc = "page"]
    /\ UNCHANGED <<server, main_vars, faults>>

\* ------------------------------------------------------ main thread actions
Crash ==
    /\ pc' = "crashed"
    /\ UNCHANGED <<projects, project_groups, environments, gi, pj, group_data,
                   project_data, tk, env_data, all_results, output_file, executor>>

\* fetch_all_projects: projects or []
FetchAllProjects(oc) ==
    /\ pc = "projects"
    /\ MayEnd(oc)
    /\ faults' = Fault(oc, <<"projects/all", "", 0, "">>)
    /\ LET resp == make_api_request(server.projects, oc)
       IN  IF resp.tag = "Raise" THEN Crash
           ELSE /\ projects' = IF resp.tag = "Json" THEN resp.json ELSE <<>>
                /\ pc' = "groups"
                /\ UNCHANGED <<project_groups, environments, gi, pj, group_data,
                               project_data, tk, env_data, all_results, output_file, executor>>
    /\ UNCHANGED server

\* fetch_all_project_groups: groups or []
FetchAllProjectGroups(oc) ==
    /\ pc = "groups"
    /\ MayEnd(oc)
    /\ faults' = Fault(oc, <<"projectgroups/all", "", 0, "">>)
    /\ LET resp == make_api_request(server.groups, oc)
       IN  IF resp.tag = "Raise" THEN Crash
           ELSE /\ project_groups' = IF resp.tag = "Json" THEN resp.json ELSE <<>>
                /\ pc' = "environments"
                /\ UNCHANGED <<projects, environments, gi, pj, group_data,
                               project_data, tk, env_data, all_results, output_file, executor>>
    /\ UNCHANGED server

\* fetch_all_environments: environments or []; then the executor of the
\* with statement is created and the group loop starts
FetchAllEnvironments(oc) ==
    /\ pc = "environments"
    /\ MayEnd(oc)
    /\ faults' = Fault(oc, <<"environments/all", "", 0, "">>)
    /\ LET resp == make_api_request(server.environments, oc)
       IN  IF resp.tag = "Raise" THEN Crash
           ELSE /\ environments' = IF resp.tag = "Json" THEN resp.json ELSE <<>>
                /\ pc' = "group"
                /\ gi' = 1
                /\ executor' = ThreadPoolExecutor(0)
                /\ UNCHANGED <<projects, project_groups, pj, group_data,
                               project_data, tk, env_data, all_results, output_file>>
    /\ UNCHANGED server

\* for group in project_groups: group_data = {...}
BeginGroup ==
    /\ pc = "group"
    /\ gi <= Len(project_groups)
    /\ group_data' = [id |-> project_groups[gi].Id, name |-> project_groups[gi].Name,
                      projects |-> <<>>]
    /\ pj' = 1
    /\ pc' = "project"
    /\ UNCHANGED <<server, projects, project_groups, environments, gi,
                   project_data, tk, env_data, all_results, output_file, executor, faults>>

\* dict.get chain of line 170
GitUrl(resp) ==
    IF resp.tag = "Json"
    THEN Get(Get(resp.json, "PersistenceSettings", <<>>), "Url", "null")
    ELSE "null"

\* for project in group_projects: fetch_project_details, project_data = {...}
FetchProjectDetails(oc) ==
    /\ pc = "project"
    /\ pj <= Len(group_projects)
    /\ MayEnd(oc)
    /\ LET project == group_projects[pj]
           resp == make_api_request(server.details[project.Id], oc)
       IN  /\ faults' = Fault(oc, <<"projects/{id}", project.Id, 0, project.Id>>)
           /\ IF resp.tag = "Raise" THEN Crash
              ELSE /\ project_data' = [id |-> project.Id, name |-> project.Name,
                                       git_url |-> GitUrl(resp), environments |-> <<>>]
                   /\ pc' = "submit"
                   /\ UNCHANGED <<projects, project_groups, environments, gi, pj,
                                  group_data, tk, env_data, all_results, output_file, executor>>
    /\ UNCHANGED server

\* futures = {executor.submit(process_deployment, project['Id'], env['Id']): env
\*            for env in environments}: one executor.submit call, for the next
\* environment; the pool threads run while the comprehension goes on
Submit ==
    /\ pc = "submit"
    /\ Len(tk) < Len(environments)
    /\ LET env == environments[Len(tk) + 1]
       IN  tk' = Append(tk, NewTask(project_data.id, env.Id,
                                    server.hist[<<project_data.id, env.Id>>],
                                    server.whole))
    /\ UNCHANGED <<server, pc, projects, project_groups, environments, gi, pj,
                   group_data, project_data, env_data, all_results, output_file,
                   executor, faults>>

\* env_data = {} once the comprehension of line 179 has submitted a task for
\* every environment; the as_completed loop begins
NewEnvData ==
    /\ pc = "submit"
    /\ Len(tk) = Len(environments)
    /\ env_data' = <<>>
    /\ pc' = "collect"
    /\ UNCHANGED <<server, projects, project_groups, environments, gi, pj,
                   group_data, project_data, tk, all_results, output_file,
                   executor, faults>>

\* a faulty variant: an insert that raced, writing over the newest entry
DictSetOverLast(d, key, value) ==
    IF d = <<>> THEN <<<<key, value>>>> ELSE [d EXCEPT ![Len(d)] = <<key, value>>]

\* a faulty variant: the dict is rebound to the new entry alone
DictSetAlone(d, key, value) == <<<<key, value>>>>

\* env_data[env_id] = data: a new key is appended, a known key keeps its place
DictSet(d, key, value) ==
    IF \E k \in 1..Len(d) : d[k][1] = key
    THEN [k \in 1..Len(d) |-> IF d[k][1] = key THEN <<key, value>> ELSE d[k]]
    ELSE Append(d, <<key, value>>)

\* a faulty variant: the name of the first environment is attached
NamedAfterFirst(data, env) == data @@ [name |-> environments[1].Name]

\* data['name'] = env['Name']
Named(data, env) == data @@ [name |-> env.Name]

\* One turn of the as_completed loop: the future of environments[i] is done.
Collect(i) ==
    /\ pc = "collect"
    /\ i \in DOMAIN tk
    /\ tk[i].pc = "done"
    /\ LET env == environments[i]
           result == tk[i].result
       IN  env_data' = IF result.tag = "Some"
                       THEN DictSet(env_data, result.env_id, Named(result.data, env))
                       ELSE env_data
    /\ tk' = [tk EXCEPT ![i].pc = "collected"]
    /\ UNCHANGED <<server, pc, projects, project_groups, environments, gi, pj,
                   group_data, project_data, all_results, output_file, executor, faults>>

\* list(env_data.values())
Values(d) == [k \in 1..Len(d) |-> d[k][2]]

\* a faulty variant: the loop is left at the first completed future
FirstCompleted == \E i \in DOMAIN tk : tk[i].pc = "collected"

\* as_completed(futures) has yielded every future
Exhausted == \A i \in DOMAIN tk : tk[i].pc = "collected"

\* the futures that have not been yielded stay with the executor
Outstanding ==
    IF \A i \in DOMAIN tk : tk[i].pc = "collected" THEN <<>>
    ELSE [i \in DOMAIN tk |-> tk[i]]

\* as_completed is exhausted: lines 195-197
FinishProject ==
    /\ pc = "collect"
    /\ Exhausted
    /\ project_data' = [project_data EXCEPT !.environments = Values(env_data)]
    /\ group_data' = [group_data EXCEPT !.projects = Append(@, project_data')]
    /\ pj' = pj + 1
    /\ pc' = "project"
    /\ tk' = Outstanding
    /\ UNCHANGED <<server, projects, project_groups, environments, gi,
                   env_data, all_results, output_file, executor, faults>>

\* the project loop of a group is exhausted: all_results.append(group_data)
EndGroup ==
    /\ pc = "project"
    /\ pj > Len(group_projects)
    /\ all_results' = Append(all_results, group_data)
    /\ gi' = gi + 1
    /\ pc' = "group"
    /\ UNCHANGED <<server, projects, project_groups, environments, pj, group_data,
                   project_data, tk, env_data, output_file, executor, faults>>

\* the group loop is exhausted: return all_results; __main__ dumps it
WriteReport ==
    /\ pc = "group"
    /\ gi > Len(project_groups)
    /\ output_file' = [tag |-> "Json", json |-> all_results]
    /\ pc' = "done"
    /\ UNCHANGED <<server, projects, project_groups, environments, gi, pj,
                   group_data, project_data, tk, env_data, all_results, executor, faults>>
\* ------------------------------------------------------------- scenarios
SeqsUpTo(S, n) == UNION {[1..k -> S] : k \in 0..n}

Project(id, group_id) == [Id |-> id, Name |-> <<"project", id>>, ProjectGroupId |-> group_id]
Group(id) == [Id |-> id, Name |-> <<"group", id>>]
Environment(i) == [Id |-> i, Name |-> <<"env", i>>]

\* projects/{id}: only some projects are version controlled
DetailBody(id) ==
    IF id \in {"P1", "P4"}
    THEN [Id |-> id, PersistenceSettings |-> [Url |-> <<"git", id>>]]
    ELSE [Id |-> id]

Server(ps, gs, n, hist, whole, failures) ==
    [projects |-> ps, groups |-> gs,
     environments |-> [i \in 1..n |-> Environment(i)],
     details |-> [id \in {ps[k].Id : k \in 1..Len(ps)} |-> DetailBody(id)],
     hist |-> hist, whole |-> whole, failures |-> failures]

ProjectIds == {"P1", "P2", "P3", "P4"}

\* A whole run: two groups, G1 owning no project and G2 owning P1 and P4,
\* and P3 in a group that is not listed; two environments; every project has
\* the drawn history h1 in one environment and a failed latest deployment
\* with an older successful one in the other.
RunHists == SeqsUpTo({"Success", "Failed"}, 2)

\* the drawn history and the records created on a whole second: none, the
\* latest of every pair, or the second of every pair
RunData == RunHists \X {{}, {FirstScanned - 1}, {FirstScanned}}

RunServers ==
    {Server(<<Project("P1", "G2"), Project("P3", "G9"), Project("P4", "G2")>>,
            <<Group("G1"), Group("G2")>>, 2,
            [pe \in ProjectIds \X (1..2) |->
                IF (pe[1] \in {"P1", "P3"}) = (pe[2] = 1)
                THEN d[1] ELSE <<"Failed", "Success">>],
            d[2], MaxFailures) : d \in RunData}

\* the data of the audited runs: every drawn history with fractional seconds
\* everywhere, and one with the second record of every pair on a whole second
AuditedData ==
    (RunHists \X {{}}) \cup {<<<<"Success">>, {FirstScanned}>>}

\* An audited run: two groups of one project each, two environments, the
\* drawn history in one pair of each project.
AuditedServers ==
    {Server(<<Project("P1", "G2"), Project("P2", "G1")>>,
            <<Group("G1"), Group("G2")>>, 2,
            [pe \in {"P1", "P2"} \X (1..2) |->
                IF (pe[1] = "P1") = (pe[2] = 1)
                THEN d[1] ELSE <<"Failed", "Success">>],
            d[2], MaxFailures) @@ [audit |-> TRUE] : d \in AuditedData}

\* One project and more environments than the pool has threads, no
\* deployment anywhere, no failing request.
PoolServers ==
    {Server(<<Project("P1", "G1")>>, <<Group("G1")>>, max_workers + ExtraEnvs,
            [pe \in {"P1"} \X (1..(max_workers + ExtraEnvs)) |->
                <<>>],
            {}, 0)}

\* One pair with history h.
PairServer(h, whole) ==
    Server(<<Project("P1", "G1")>>, <<Group("G1")>>, 1,
           [pe \in {"P1"} \X {1} |-> h], whole, MaxFailures)

\* The state before the first statement of fetch_all_deployment_data.
InitRun(srv) ==
    /\ server = srv
    /\ pc = "projects"
    /\ projects = <<>>
    /\ project_groups = <<>>
    /\ environments = <<>>
    /\ gi = 0
    /\ pj = 0
    /\ group_data = None
    /\ project_data = None
    /\ tk = <<>>
    /\ env_data = <<>>
    /\ all_results = <<>>
    /\ output_file = None
    /\ executor = None
    /\ faults = <<>>

\* The state of a run with one pair whose task a pool thread has just taken.
InitPair(srv) ==
    /\ server = srv
    /\ pc = "collect"
    /\ projects = srv.projects
    /\ project_groups = srv.groups
    /\ environments = srv.environments
    /\ gi = 1
    /\ pj = 1
    /\ group_data = [id |-> "G1", name |-> Group("G1").Name, projects |-> <<>>]
    /\ project_data = [id |-> "P1", name |-> Project("P1", "G1").Name,
                       git_url |-> GitUrl(make_api_request(srv.details["P1"], 200)),
                       environments |-> <<>>]
    /\ tk = <<[NewTask("P1", 1, srv.hist[<<"P1", 1>>], srv.whole) EXCEPT !.pc = "page"]>>
    /\ env_data = <<>>
    /\ all_results = <<>>
    /\ output_file = None
    /\ executor = ThreadPoolExecutor(0)
    /\ faults = <<>>

\* ---------------------------------------------------------- specifications
\* the positions a task can have in the futures of a project
Slots == 1..(max_workers + ExtraEnvs)

Work ==
    \E i \in Slots, oc \in Outcomes :
        \/ FetchPage(i, oc)
        \/ FetchRelease(i, oc)
        \/ FetchTask(i, oc)
        \/ ScanTask(i, oc)
        \/ ScanRelease(i, oc)

Main ==
    \/ \E oc \in Outcomes :
        \/ FetchAllProjects(oc)
        \/ FetchAllProjectGroups(oc)
        \/ FetchAllEnvironments(oc)
        \/ FetchProjectDetails(oc)
    \/ BeginGroup
    \/ Submit
    \/ NewEnvData
    \/ \E i \in Slots : Start(i) \/ Collect(i)
    \/ FinishProject
    \/ EndGroup
    \/ WriteReport

\* the whole run
Init == \E srv \in RunServers : InitRun(srv)
Next == Main \/ Work
Spec == Init /\ [][Next]_vars

\* the whole run against more environments than pool threads
InitPool == \E srv \in PoolServers : InitRun(srv)
NextPool == Main \/ \E i \in Slots, oc \in Outcomes : FetchPage(i, oc)
SpecPool == InitPool /\ [][NextPool]_vars

\* the whole run, the failed requests logged in full
InitAudit == \E srv \in AuditedServers : InitRun(srv)
SpecAudit == InitAudit /\ [][Next]_vars

\* one resolution, every history up to MaxHist records
InitRes ==
    \E h \in SeqsUpTo(TaskStates, MaxHist) :
        \E whole \in SUBSET (1..Len(h)) : InitPair(PairServer(h, whole))
SpecRes == InitRes /\ [][Work]_vars

\* the paginator of one resolution, histories of up to MaxRecords records
InitPag == \E n \in 0..MaxRecords : InitPair(PairServer([k \in 1..n |-> "Success"], {}))
NextPag == \E oc \in Outcomes : FetchPage(1, oc)
SpecPag == InitPag /\ [][NextPag]_vars
\* ------------------------------------------------------------------ claims
Tasks == {tk[i] : i \in DOMAIN tk}

\* the deployments requests of a task, in the order issued
PageCalls(t) == SelectSeq(t.calls, LAMBDA c : c[1] = "deployments")

AllServed(cs) == \A k \in 1..Len(cs) : cs[k][3] = "Json"

\* the paginator of the task has returned
Paginated(t) == t.pc \notin {"queued", "page"}

\* C5: when every page request is served, the paginator issues exactly
\* floor(N/30)+1 requests, skip = 0, 30, 60, ... in that order, and returns
\* all N records in source order; before it returns it has issued fewer.
C5_PaginationComplete ==
    \A t \in Tasks :
        LET N == Len(t.hist)
            cs == PageCalls(t)
        IN  AllServed(cs) =>
              /\ t.pc = "page" => Len(cs) <= N \div take
              /\ Paginated(t) =>
                   /\ cs = [k \in 1..(N \div take + 1) |->
                               <<"deployments", (k - 1) * take, "Json">>]
                   /\ t.all_items = Deployments(t.hist, t.whole)

\* 90 records: pages of 30, 30, 30 and 0 records, four requests
C5_Witness ==
    \E t \in Tasks :
        /\ Len(t.hist) = 3 * take
        /\ Paginated(t)
        /\ AllServed(PageCalls(t))
        /\ Len(PageCalls(t)) = 4
        /\ Len(t.all_items) = 90

\* the k-th page request returned Absent, the k-1 before it were served
AbsentAt(t, k) ==
    LET cs == PageCalls(t)
    IN  /\ Len(cs) >= k
        /\ cs[k][3] = "None"
        /\ \A j \in 1..(k - 1) : cs[j][3] = "Json"

\* C6: when the k-th page request returns Absent after k-1 full pages, the
\* paginator issues no further request and returns exactly the 30*(k-1)
\* records accumulated, in order, and no exception is raised.
C6_PartialResults ==
    \A t \in Tasks : \A k \in 1..(Len(PageCalls(t))) :
        AbsentAt(t, k) =>
            /\ Len(PageCalls(t)) = k
            /\ Paginated(t)
            /\ ~t.raised
            /\ Len(t.all_items) = take * (k - 1)
            /\ t.all_items = SubSeq(Deployments(t.hist, t.whole), 1, take * (k - 1))
            /\ t.pc = "release" <=> k > 1

\* two full pages, then Absent on the third request: 60 records returned
C6_Witness ==
    \E t \in Tasks : AbsentAt(t, 3) /\ Len(t.all_items) = 60 /\ t.pc = "release"

\* the resolution has emitted a report
Emitted(t) == t.pc \in {"done", "collected"} /\ t.result.tag = "Some"

\* the task state of the latest deployment, as the service holds it
LatestState(t) == t.hist[t.all_items[1].TaskId]

\* C3: an emitted report carries failed = true exactly when the task state
\* of the latest deployment is Failed; for every other state, or no State,
\* it has no failed key.
C3_FailedIffLatestFailed ==
    \A t \in Tasks :
        Emitted(t) =>
            /\ "failed" \in DOMAIN t.result.data <=> LatestState(t) = "Failed"
            /\ "failed" \in DOMAIN t.result.data => t.result.data.failed = TRUE

C3_Witness ==
    \E t \in Tasks :
        /\ Emitted(t)
        /\ LatestState(t) = "Failed"
        /\ t.result.data.failed = TRUE

\* the last-successful fields of the report are those of record k
LastSuccessfulIs(data, k) ==
    /\ "last_successful_version" \in DOMAIN data
    /\ "last_successful_date" \in DOMAIN data
    /\ data.last_successful_version = ReleaseBody(DeploymentRecord(k, {}).ReleaseId).Version
    /\ data.last_successful_date = <<astimezone(DeploymentRecord(k, {}).Created.hour), "PDT">>

\* the smallest member of a nonempty set of numbers
Least(S) == CHOOSE k \in S : \A j \in S : k <= j

\* the older records of the history whose task state is Success
OlderSuccess(t) == {k \in 2..Len(t.hist) : t.hist[k] = "Success"}

\* C4: with a Failed latest deployment and an older deployment
\* whose task state is Success, the emitted report's last-successful version
\* and date are those of the nearest such deployment.
C4_NearestInHistory ==
    \A t \in Tasks :
        (Emitted(t) /\ LatestState(t) = "Failed" /\ OlderSuccess(t) # {}) =>
            LastSuccessfulIs(t.result.data, Least(OlderSuccess(t)))

\* the older records whose task request returned a task in state Success
\* (seen[j] is what the scan read for record j + 1)
ReadSuccess(t) == {j + 1 : j \in {i \in 1..Len(t.seen) : t.seen[i] = "Success"}}

\* C7: make_api_request never raises to its caller.
C7_NeverRaises ==
    \A t \in Tasks : \A k \in 1..Len(t.calls) : t.calls[k][3] # "Raise"
\* ------------------------------------------- the run without any failure
RECURSIVE RunToEnd(_)
RunToEnd(t) == IF t.pc = "done" THEN t ELSE RunToEnd(TaskStep(t, 200))

\* what process_deployment returns for a pair when every request is served
Resolved(p, e) ==
    RunToEnd([NewTask(p, e, server.hist[<<p, e>>], server.whole) EXCEPT !.pc = "page"]).result

\* the entry of the pair (p, environment i) in a run without failure
ExpectedEntry(p, i) ==
    Resolved(p, server.environments[i].Id).data
        @@ [name |-> server.environments[i].Name]

ExpectedEntries(p) ==
    {ExpectedEntry(p, i) : i \in {j \in DOMAIN server.environments :
                                     Resolved(p, server.environments[j].Id).tag = "Some"}}

Range(f) == {f[k] : k \in DOMAIN f}

\* the projects of the service whose group the service lists
ListedProjects ==
    {q \in Range(server.projects) :
        \E g \in Range(server.groups) : g.Id = q.ProjectGroupId}

\* the report written to the output file
Report == output_file.json

ProjectReports == UNION {Range(Report[g].projects) : g \in DOMAIN Report}

EntriesOf(pr) == Range(pr.environments)

HasEntry(pr, env) == \E x \in EntriesOf(pr) : x.name = env.Name

\* a report without its environment entries
Skeleton(report) ==
    [g \in DOMAIN report |->
        [id |-> report[g].id, name |-> report[g].name,
         projects |-> [k \in DOMAIN report[g].projects |->
                          [id |-> report[g].projects[k].id,
                           name |-> report[g].projects[k].name,
                           git_url |-> report[g].projects[k].git_url]]]]

\* the groups and projects of the report of a run without failure
ExpectedSkeleton ==
    [g \in DOMAIN server.groups |->
        LET ps == SelectSeq(server.projects,
                            LAMBDA q : q.ProjectGroupId = server.groups[g].Id)
        IN  [id |-> server.groups[g].Id, name |-> server.groups[g].Name,
             projects |-> [k \in DOMAIN ps |->
                              [id |-> ps[k].Id, name |-> ps[k].Name,
                               git_url |-> GitUrl(make_api_request(
                                               server.details[ps[k].Id], 200))]]]]

\* where the failed requests of the run were made
FaultPairs == {<<faults[k][2], faults[k][3]>> : k \in DOMAIN faults}
FaultEndpoints == {faults[k][1] : k \in DOMAIN faults}

\* the failed requests of the run are all requests of one resolution
OneResolutionFails ==
    /\ faults # <<>>
    /\ FaultEndpoints \subseteq {"deployments", "releases", "tasks"}
    /\ Cardinality(FaultPairs) = 1

\* C1: when the failed requests of a run (Absent or raising) all belong to
\* one (project, environment) resolution, no exception leaves
\* process_deployment, the run does not abort, and every other pair whose
\* history yields a report has its entry in the final report, equal to the
\* entry of the run without failure.
C1_FailureContained ==
    OneResolutionFails =>
        /\ pc # "crashed"
        /\ \A t \in Tasks : t.result.tag # "Raise"
        /\ pc = "done" =>
             \A q \in ListedProjects : \A i \in DOMAIN server.environments :
                 (/\ <<q.Id, server.environments[i].Id>> \notin FaultPairs
                  /\ Resolved(q.Id, server.environments[i].Id).tag = "Some")
                 => \E pr \in ProjectReports :
                        pr.id = q.Id /\ ExpectedEntry(q.Id, i) \in EntriesOf(pr)

\* a resolution with a failed request lost its entry; the entry of its
\* sibling is in the report
C1_Witness ==
    /\ pc = "done"
    /\ OneResolutionFails
    /\ \E pr \in ProjectReports : \E i, j \in DOMAIN server.environments :
          /\ <<pr.id, server.environments[i].Id>> \in FaultPairs
          /\ Resolved(pr.id, server.environments[i].Id).tag = "Some"
          /\ ~HasEntry(pr, server.environments[i])
          /\ j # i
          /\ Resolved(pr.id, server.environments[j].Id).tag = "Some"
          /\ ExpectedEntry(pr.id, j) \in EntriesOf(pr)

\* the failed requests of the pair (p, e) in an audited run
FaultsOf(p, e) == {faults[k] : k \in {j \in DOMAIN faults :
                                         faults[j][2] = p /\ faults[j][3] = e}}

\* C2: in the final report a project of a listed group has no entry for an
\* environment whose pair has no deployment record, and has an entry for an
\* environment whose pair has one.  The second half is stated for the pairs
\* that the failure rules of the spec leave reportable: every creation time
\* carries fractional seconds, and the only requests of the pair that failed
\* are task requests of older deployments, which the scan passes over.
C2_PresenceIffHistory ==
    pc = "done" =>
        \A pr \in ProjectReports : \A env \in Range(environments) :
            /\ server.hist[<<pr.id, env.Id>>] = <<>> => ~HasEntry(pr, env)
            /\ (/\ server.hist[<<pr.id, env.Id>>] # <<>>
                /\ server.whole = {}
                /\ \A f \in FaultsOf(pr.id, env.Id) :
                       f[1] = "tasks" /\ f[4] >= FirstScanned)
               => HasEntry(pr, env)

\* C8: whatever the requests of a run meet, the run ends with the report
\* written to the output file.
C8_AlwaysWrites ==
    pc \in {"done", "crashed"} => output_file.tag = "Json"

\* the entries of the failure-free report that the report lacks
MissingEntries ==
    UNION {{<<pr.id, x>> : x \in ExpectedEntries(pr.id) \ EntriesOf(pr)} :
              pr \in ProjectReports}

\* C9: after one failed request, whatever its endpoint, the final report is
\* the failure-free report less at most one environment entry.
C9_OneEntryAtMost ==
    (pc = "done" /\ Len(faults) = 1) =>
        /\ Skeleton(Report) = ExpectedSkeleton
        /\ \A pr \in ProjectReports : EntriesOf(pr) \subseteq ExpectedEntries(pr.id)
        /\ Cardinality(MissingEntries) <= 1

\* C10: at most max_workers resolutions run at any time, under the one
\* executor the run creates.
C10_WorkerBound ==
    /\ Cardinality({t \in Tasks : Running(t)}) <= 10
    /\ executor.tag = "Pool" => executor.created = 1

\* ten resolutions running while another waits in the queue
C10_Witness ==
    /\ Cardinality({t \in Tasks : Running(t)}) = 10
    /\ \E t \in Tasks : t.pc = "queued"
\* ----------------------------------------- the requests of one resolution
\* the requests of a task after those of the paginator, in the order issued
Later(t) == SelectSeq(t.calls, LAMBDA c : c[1] # "deployments")

\* the release and the task request of the latest deployment both returned
\* a body
LatestServed(t) ==
    /\ Len(Later(t)) >= 2
    /\ Later(t)[1][3] = "Json"
    /\ Later(t)[2][3] = "Json"

\* the release or the task request of the latest deployment returned Absent
LatestAbsent(t) ==
    \/ Len(Later(t)) >= 1 /\ Later(t)[1][3] = "None"
    \/ Len(Later(t)) >= 2 /\ Later(t)[2][3] = "None"

Finished(t) == t.pc \in {"done", "collected"}

\* C17: when the pair has a deployment but the release or the task request
\* of the latest deployment returns Absent, process_deployment returns
\* Absent by its return statement and requests nothing of an older
\* deployment: its requests end with the release and the task of the latest.
C17_UnreportableLatest ==
    \A t \in Tasks :
        LatestAbsent(t) =>
            /\ t.all_items # <<>>
            /\ t.pc \in {"task", "done", "collected"}
            /\ Finished(t) => t.result = None
            /\ Finished(t) /\ Later(t)[Len(Later(t))][3] # "Raise" => ~t.raised
            /\ Len(Later(t)) <= 2
            /\ \A k \in 1..Len(Later(t)) :
                   Later(t)[k] = <<IF k = 1 THEN "releases" ELSE "tasks",
                                   t.all_items[1].Id, Later(t)[k][3]>>

\* a failed latest deployment with an older successful one, its release
\* Absent: two requests, no report
C17_Witness ==
    \E t \in Tasks :
        /\ Finished(t)
        /\ t.hist = <<"Failed", "Success">>
        /\ Later(t) = <<<<"releases", 1, "None">>, <<"tasks", 1, "Json">>>>
        /\ t.result = None

HasLastSuccessful(data) ==
    "last_successful_version" \in DOMAIN data \/ "last_successful_date" \in DOMAIN data

\* C18: the last-successful fields are in an emitted report only with
\* failed = true and an older deployment of Success state; and when the
\* latest deployment, its release and its task fetched and every creation
\* time carrying fractional seconds, is Failed and no older deployment is
\* Success, a report is emitted with failed = true and neither field.
C18_EmittedWithoutFields ==
    \A t \in Tasks :
        /\ (Emitted(t) /\ HasLastSuccessful(t.result.data)) =>
               /\ "failed" \in DOMAIN t.result.data
               /\ OlderSuccess(t) # {}
        /\ (/\ Finished(t)
            /\ LatestServed(t)
            /\ t.whole = {}
            /\ LatestState(t) = "Failed"
            /\ OlderSuccess(t) = {}) =>
               /\ Emitted(t)
               /\ t.result.data.failed = TRUE
               /\ ~HasLastSuccessful(t.result.data)
\* the records whose task, and whose release, the resolution requested
TaskArgs(t) ==
    LET cs == SelectSeq(Later(t), LAMBDA c : c[1] = "tasks")
    IN  [k \in DOMAIN cs |-> cs[k][2]]

ReleaseArgs(t) ==
    LET cs == SelectSeq(Later(t), LAMBDA c : c[1] = "releases")
    IN  [k \in DOMAIN cs |-> cs[k][2]]

\* request j of the resolution read the task of a record in state Success
ReadsSuccessAt(t, j) ==
    /\ Later(t)[j][1] = "tasks"
    /\ Later(t)[j][3] = "Json"
    /\ t.hist[Later(t)[j][2]] = "Success"

\* C19: after the release and the task of the latest deployment, tasks of
\* older deployments are requested only when the latest was read as Failed,
\* in descending-time order from the second record; after the first task
\* read in state Success only the release of that record is requested. So
\* with the nearest Success read at record k the tasks requested are those
\* of records 1..k and the releases those of records 1 and k, and with a
\* latest that is not Failed only its release and task are requested.
C19_ScanCallSequence ==
    \A t \in Tasks :
        LET L == Later(t)
            n == Len(L)
        IN  /\ n >= 1 => L[1][1] = "releases" /\ L[1][2] = t.all_items[1].Id
            /\ n >= 2 => L[2][1] = "tasks" /\ L[2][2] = t.all_items[1].Id
            /\ n > 2 => LatestServed(t) /\ LatestState(t) = "Failed"
            /\ TaskArgs(t) = [k \in 1..Len(TaskArgs(t)) |-> k]
            /\ \A j \in 3..n :
                  /\ L[j][1] = "releases" =>
                        /\ j = n
                        /\ ReadsSuccessAt(t, j - 1)
                        /\ L[j][2] = L[j - 1][2]
                  /\ ReadsSuccessAt(t, j) =>
                        /\ j >= n - 1
                        /\ j = n => t.pc = "scan_release"
                        /\ j = n - 1 => L[n][1] = "releases"
            /\ (Finished(t) /\ ReadSuccess(t) # {}) =>
                  /\ TaskArgs(t) = [k \in 1..Least(ReadSuccess(t)) |-> k]
                  /\ ReleaseArgs(t) = <<1, Least(ReadSuccess(t))>>
            /\ (Finished(t) /\ LatestServed(t) /\ LatestState(t) # "Failed") =>
                  /\ TaskArgs(t) = <<1>>
                  /\ ReleaseArgs(t) = <<1>>

\* the nearest Success is the third record: tasks 1, 2, 3, releases 1, 3
C19_Witness ==
    \E t \in Tasks :
        /\ Emitted(t)
        /\ t.hist = <<"Failed", "Executing", "Success">>
        /\ TaskArgs(t) = <<1, 2, 3>>
        /\ ReleaseArgs(t) = <<1, 3>>

\* C20: when the release request of the older deployment the scan found
\* successful returns Absent, the resolution ends without a report, the
\* base report with failed = true being discarded; and after an older
\* deployment whose task request returned Absent the scan goes on with the
\* next record, or ends with the base report when there is none.
C20_AbsentInScan ==
    \A t \in Tasks :
        LET L == Later(t)
            n == Len(L)
        IN  /\ (n >= 3 /\ L[n][1] = "releases" /\ L[n][3] = "None") =>
                  /\ Finished(t)
                  /\ t.result = None
                  /\ t.output.failed = TRUE
            /\ \A j \in 3..n :
                  (L[j][1] = "tasks" /\ L[j][3] = "None") =>
                      IF L[j][2] < Len(t.all_items)
                      THEN /\ j < n => L[j + 1] = <<"tasks", L[j][2] + 1, L[j + 1][3]>>
                           /\ j = n => t.pc = "scan" /\ t.idx = L[j][2] + 1
                      ELSE /\ j = n
                           /\ Emitted(t)
                           /\ t.result.data = t.output
                           /\ ~HasLastSuccessful(t.result.data)

\* the task of the second record is Absent, the third is read successful,
\* its release is Absent: no report
C20_Witness ==
    \E t \in Tasks :
        /\ Finished(t)
        /\ t.hist = <<"Failed", "Success", "Success">>
        /\ Later(t) = <<<<"releases", 1, "Json">>, <<"tasks", 1, "Json">>,
                        <<"tasks", 2, "None">>, <<"tasks", 3, "Json">>,
                        <<"releases", 3, "None">>>>
        /\ t.result = None
\* --------------------------------------------------- the shape of the report
\* the places <<g, k>> of the report where a project is reported
PlacesOf(report, id) ==
    {gk \in UNION {{<<g, k>> : k \in DOMAIN report[g].projects} : g \in DOMAIN report} :
        report[gk[1]].projects[gk[2]].id = id}

\* C11: the final report lists the groups in the order of the group fetch
\* and, in each group, its projects in the order of the project fetch; a
\* listed group appears once, a project of a listed group once, under its
\* group.
C11_OrderPreserved ==
    pc = "done" =>
        /\ [g \in DOMAIN Report |-> <<Report[g].id, Report[g].name>>]
               = [g \in DOMAIN project_groups |->
                      <<project_groups[g].Id, project_groups[g].Name>>]
        /\ \A g \in DOMAIN Report :
               LET ps == SelectSeq(projects,
                                   LAMBDA q : q.ProjectGroupId = project_groups[g].Id)
               IN  [k \in DOMAIN Report[g].projects |->
                       <<Report[g].projects[k].id, Report[g].projects[k].name>>]
                       = [k \in DOMAIN ps |-> <<ps[k].Id, ps[k].Name>>]
        /\ \A q \in Range(projects) :
               (\E g \in DOMAIN project_groups : project_groups[g].Id = q.ProjectGroupId)
               => /\ Cardinality(PlacesOf(Report, q.Id)) = 1
                  /\ \A gk \in PlacesOf(Report, q.Id) : Report[gk[1]].id = q.ProjectGroupId

\* both groups reported, G2 with P1 before P4, and the entries of P1 in the
\* order the futures completed: the second environment first
C11_Witness ==
    /\ pc = "done"
    /\ Len(Report) = 2
    /\ Report[1].id = "G1"
    /\ Report[2].id = "G2"
    /\ Len(Report[2].projects) = 2
    /\ Report[2].projects[1].id = "P1"
    /\ Report[2].projects[2].id = "P4"
    /\ Len(Report[2].projects[1].environments) = 2
    /\ Report[2].projects[1].environments[1].name = Environment(2).Name

\* the fetched projects whose group the group fetch did not return
Orphans ==
    {q \in Range(projects) :
        ~ \E g \in DOMAIN project_groups : project_groups[g].Id = q.ProjectGroupId}

\* the project reports built so far
ReportsSoFar ==
    UNION {Range(all_results[g].projects) : g \in DOMAIN all_results}
        \cup (IF group_data = None THEN {} ELSE Range(group_data.projects))

\* C13: once projects and groups are fetched, a project whose group
\* identifier matches no fetched group is in no report, the project-detail
\* request is never made for it and no resolution is submitted for it.
C13_OrphansDropped ==
    pc \notin {"projects", "groups"} =>
        \A q \in Orphans :
            /\ project_data # None => project_data.id # q.Id
            /\ \A t \in Tasks : t.project_id # q.Id
            /\ \A pr \in ReportsSoFar : pr.id # q.Id
            /\ \A k \in DOMAIN faults : faults[k][2] # q.Id
            /\ pc = "done" => PlacesOf(Report, q.Id) = {}

\* a report with projects, written while P3 is in no fetched group
C13_Witness ==
    /\ pc = "done"
    /\ \E q \in Orphans : q.Id = "P3"
    /\ project_groups # <<>>
    /\ Len(server.projects) = 3
    /\ {pr.id : pr \in ProjectReports} = {"P1", "P4"}
\* C14: the tasks of a project are submitted one after the other, one per
\* environment and in the order of the environments, with nothing else done
\* by the main thread in between; from the first submission until the last
\* task is collected the main thread stays with that project: it requests no
\* project detail and submits no task of another project, so the tasks in
\* flight all belong to the project being built.
C14_ProjectBarrier ==
    /\ pc \in {"submit", "collect"} =>
          /\ Len(tk) <= Len(environments)
          /\ \A i \in DOMAIN tk :
                /\ tk[i].project_id = project_data.id
                /\ tk[i].environment_id = environments[i].Id
    /\ pc = "collect" => DOMAIN tk = DOMAIN environments
    /\ pc \notin {"submit", "collect"} => \A t \in Tasks : t.pc = "collected"
    /\ \A t1, t2 \in Tasks : t1.project_id = t2.project_id

\* the tasks of P4, the second project of its group, in flight together
C14_Witness ==
    /\ pc = "collect"
    /\ project_data.id = "P4"
    /\ Cardinality({i \in DOMAIN tk : Running(tk[i])}) = 2

\* the keys of env_data
Keys(d) == {d[k][1] : k \in DOMAIN d}

\* C16: env_data, and so every project report, holds at most one entry per
\* environment identifier; the entry of an identifier is the report of the
\* task submitted for the project being built and that environment, with
\* that environment's name attached.
C16_OneEntryPerPair ==
    /\ pc = "collect" =>
          /\ Cardinality(Keys(env_data)) = Len(env_data)
          /\ \A k \in DOMAIN env_data :
                \E i \in DOMAIN tk :
                    /\ tk[i].pc = "collected"
                    /\ tk[i].project_id = project_data.id
                    /\ tk[i].environment_id = env_data[k][1]
                    /\ environments[i].Id = env_data[k][1]
                    /\ tk[i].result.tag = "Some"
                    /\ env_data[k][2] = tk[i].result.data @@ [name |-> environments[i].Name]
          /\ \A i \in DOMAIN tk :
                (tk[i].pc = "collected" /\ tk[i].result.tag = "Some")
                => tk[i].environment_id \in Keys(env_data)
    /\ \A pr \in ReportsSoFar :
          /\ \A j, k \in DOMAIN pr.environments :
                pr.environments[j].name = pr.environments[k].name => j = k
          /\ \A k \in DOMAIN pr.environments :
                \E e \in Range(environments) : pr.environments[k].name = e.Name

\* both environments of a project have their entry, the second one first
C16_Witness ==
    /\ pc = "collect"
    /\ Len(env_data) = 2
    /\ env_data[1][1] = 2
    /\ env_data[1][2].name = Environment(2).Name
    /\ env_data[2][1] = 1
\* the tasks a step changes
Changed == {i \in DOMAIN tk : i \notin DOMAIN tk' \/ tk'[i] # tk[i]}

\* a step of a worker: a task that is queued or running moves
WorkerStep == \E i \in Changed : tk[i].pc \notin {"done", "collected"}

\* a step that inserts into the collection of the project being built
Insert == pc = "collect" /\ pc' = "collect" /\ env_data' # env_data

\* C15: a step of a worker changes that one task and nothing else: not
\* env_data, not the report tree, not another task.  An insert into env_data
\* is a step of the main thread consuming one completed task: it changes no
\* running task, keeps every entry already inserted and adds the entry of the
\* consumed task.
C15_Step ==
    /\ WorkerStep =>
          /\ Cardinality(Changed) = 1
          /\ UNCHANGED <<env_data, project_data, group_data, all_results,
                         output_file, pc>>
    /\ Insert =>
          /\ \E i \in DOMAIN tk :
                /\ Changed = {i}
                /\ tk[i].pc = "done"
                /\ tk'[i] = [tk[i] EXCEPT !.pc = "collected"]
                /\ tk[i].result.tag = "Some"
                /\ env_data' = Append(env_data,
                                      <<environments[i].Id,
                                        tk[i].result.data @@ [name |-> environments[i].Name]>>)
          /\ UNCHANGED <<project_data, group_data, all_results, output_file>>
C15_RaceFreeCollection == [][C15_Step]_vars

\* one result is in env_data while the other task of the project is still
\* issuing requests
C15_Witness ==
    /\ pc = "collect"
    /\ Len(env_data) = 1
    /\ \E i \in DOMAIN tk : Running(tk[i]) /\ tk[i].calls # <<>>
\* ------------------------------------------- the report as a function of
\* the backing data and of the outcomes of the requests
\* the outcome a request had in this run: the failure logged for it, or 200
OutcomeAt(site) ==
    IF \E k \in DOMAIN faults : SubSeq(faults[k], 1, 4) = site
    THEN LET k == CHOOSE j \in DOMAIN faults : SubSeq(faults[j], 1, 4) = site
         IN  IF faults[k][5] = "Raise" THEN TransportError ELSE 404
    ELSE 200

\* process_deployment run alone, every request ending as it did in this run
RECURSIVE RunAgain(_)
RunAgain(t) ==
    IF t.pc = "done" THEN t
    ELSE RunAgain(TaskStep(t, OutcomeAt(<<Endpoint(t.pc), t.project_id,
                                          t.environment_id, PendingArg(t)>>)))

\* a list fetch of the run: `x or []`
ListAgain(body, endpoint) ==
    LET resp == make_api_request(body, OutcomeAt(<<endpoint, "", 0, "">>))
    IN  IF resp.tag = "Json" THEN resp.json ELSE <<>>

\* the entries of a project, the tasks run one after the other
EntriesAgain(p) ==
    LET envs == ListAgain(server.environments, "environments/all")
        result(i) == RunAgain([NewTask(p, envs[i].Id, server.hist[<<p, envs[i].Id>>],
                                        server.whole)
                                  EXCEPT !.pc = "page"]).result
    IN  {result(i).data @@ [name |-> envs[i].Name] :
            i \in {j \in DOMAIN envs : result(j).tag = "Some"}}

\* groups and projects of the report, computed without any concurrency
SkeletonAgain ==
    LET gs == ListAgain(server.groups, "projectgroups/all")
        qs == ListAgain(server.projects, "projects/all")
    IN  [g \in DOMAIN gs |->
            LET ps == SelectSeq(qs, LAMBDA q : q.ProjectGroupId = gs[g].Id)
            IN  [id |-> gs[g].Id, name |-> gs[g].Name,
                 projects |-> [k \in DOMAIN ps |->
                    [id |-> ps[k].Id, name |-> ps[k].Name,
                     git_url |-> GitUrl(make_api_request(
                                    server.details[ps[k].Id],
                                    OutcomeAt(<<"projects/{id}", ps[k].Id, 0, ps[k].Id>>)))]]]]

\* C12: the report of a finished run is determined by the backing data and
\* by the outcome of each request, whatever the scheduling of the workers and
\* the completion order: its groups and projects, in order, and the set of
\* environment entries of each project are those of a sequential run with
\* the same outcomes.  Two runs with the same data and the same outcomes
\* therefore agree up to the order of each environments list.
C12_DeterminedByOutcomes ==
    pc = "done" =>
        /\ Skeleton(Report) = SkeletonAgain
        /\ \A g \in DOMAIN Report : \A k \in DOMAIN Report[g].projects :
              EntriesOf(Report[g].projects[k]) = EntriesAgain(Report[g].projects[k].id)

\* a report in which one project lists environment 1 first and another lists
\* environment 2 first, after a failed request
C12_Witness ==
    /\ pc = "done"
    /\ faults # <<>>
    /\ \E pr1, pr2 \in ProjectReports :
          /\ Len(pr1.environments) = 2
          /\ Len(pr2.environments) = 2
          /\ pr1.environments[1].name = Environment(1).Name
          /\ pr2.environments[1].name = Environment(2).Name
====
